---- MODULE Spec2Model ----
(***************************************************************************)
(* A model of the conduit application (harabat/django-htmx): the article   *)
(* identifier generator, the tag registry, the social graph, the content   *)
(* store and the request handlers that guard it.                           *)
(*                                                                         *)
(* Text is modelled as a sequence of characters.  A character is a string  *)
(* of length one; a character outside ASCII is written by its code point,  *)
(* e.g. "U+00E9" for e-acute, and still counts as ONE character.           *)
(***************************************************************************)
EXTENDS Naturals, Integers, Sequences, FiniteSets, Bags, TLC

VARIABLES
    users,        \* auth user table: the set of saved account ids
    profiles,     \* Profile table: a set of rows [pk, user]
    follows,      \* through table of Profile.follows: a bag of <<from pk, to pk>>
    favorites,    \* through table of Profile.favorites: a bag of <<profile pk, article pk>>
    instances,    \* in-memory Article objects, by article id
    articles,     \* Article table: article id -> row, or NoRow
    comments,     \* Comment table: a set of rows [pk, article, author]
    tags,         \* Tag table: a set of rows [pk, tag, slug]
    article_tags, \* through table of Article.tags: a bag of <<article pk, tag pk>>
    last,         \* what the last operation was and how it ended
    calls         \* add_tag calls in progress: call id -> its local variables

vars == <<users, profiles, follows, favorites, instances, articles, comments,
          tags, article_tags, last, calls>>

(***************************************************************************)
(* Bounds of the model.                                                    *)
(***************************************************************************)
MaxTitleLen == 2
MaxLongLen == 220
MaxUsers == 2
MaxArticles == 1
MaxComments == 1
MaxTagLen == 1
MaxCalls == 2

(***************************************************************************)
(* Program constants.                                                      *)
(***************************************************************************)
slug_uuid_max_length == 255
title_max_length == 100
UuidNibbles == 32

(***************************************************************************)
(* Characters.                                                             *)
(***************************************************************************)
UpperSeq == <<"A","B","C","D","E","F","G","H","I","J","K","L","M",
              "N","O","P","Q","R","S","T","U","V","W","X","Y","Z">>
LowerSeq == <<"a","b","c","d","e","f","g","h","i","j","k","l","m",
              "n","o","p","q","r","s","t","u","v","w","x","y","z">>
HexSeq == <<"0","1","2","3","4","5","6","7","8","9","a","b","c","d","e","f">>
SeqRange(s) == {s[i] : i \in 1..Len(s)}
Letters == SeqRange(UpperSeq) \cup SeqRange(LowerSeq)
DigitChars == {"0","1","2","3","4","5","6","7","8","9"}
\* \w of an ASCII text
WordChars == Letters \cup DigitChars \cup {"_"}
\* \s of an ASCII text
SpaceChars == {" ", "\t", "\n"}
PunctChars == {"!", ",", ".", "?", "'", "#", "-", "_"}
AsciiChars == WordChars \cup SpaceChars \cup PunctChars

\* str.lower() on one character
LowerChar(c) ==
    IF \E i \in 1..Len(UpperSeq) : UpperSeq[i] = c
    THEN LowerSeq[CHOOSE i \in 1..Len(UpperSeq) : UpperSeq[i] = c]
    ELSE c

\* unicodedata.normalize("NFKD", c) on one character: its compatibility
\* decomposition.  U+00E9 is e + combining acute, U+FB03 is the ligature ffi,
\* U+00DF (sharp s) has no decomposition.
NFKDChar(c) ==
    CASE c = "U+00E9" -> <<"e", "U+0301">>
      [] c = "U+FB03" -> <<"f", "f", "i">>
      [] OTHER -> <<c>>

\* unicodedata.normalize("NFKD", s): the decompositions of the characters of s,
\* in order (computed by halves)
RECURSIVE NFKD(_)
NFKD(s) ==
    IF s = <<>> THEN <<>>
    ELSE IF Len(s) = 1 THEN NFKDChar(s[1])
    ELSE NFKD(SubSeq(s, 1, Len(s) \div 2)) \o NFKD(SubSeq(s, Len(s) \div 2 + 1, Len(s)))

\* .encode("ascii", "ignore").decode("ascii")
AsciiIgnore(s) == SelectSeq(s, LAMBDA c : c \in AsciiChars)

Lower(s) == [i \in 1..Len(s) |-> LowerChar(s[i])]

\* re.sub(r"[^\w\s-]", "", s)
DropNonWord(s) == SelectSeq(s, LAMBDA c : c \in WordChars \cup SpaceChars \cup {"-"})

\* re.sub(r"[-\s]+", "-", s): every maximal run of hyphens and whitespace
\* becomes one hyphen ("" marks a position the substitution drops)
IsSep(c) == c \in SpaceChars \cup {"-"}
CollapseSeps(s) ==
    LET marked == [i \in 1..Len(s) |->
                     IF IsSep(s[i])
                     THEN IF i > 1 /\ IsSep(s[i-1]) THEN "" ELSE "-"
                     ELSE s[i]]
    IN  SelectSeq(marked, LAMBDA c : c # "")

\* s.strip(chars)
Strip(s, chars) ==
    LET keep == {i \in 1..Len(s) : s[i] \notin chars}
    IN  IF keep = {} THEN <<>>
        ELSE SubSeq(s, CHOOSE i \in keep : \A j \in keep : i <= j,
                       CHOOSE i \in keep : \A j \in keep : i >= j)

\* Python values that may be None
None == [kind |-> "None"]
Text(s) == [kind |-> "str", val |-> s]
\* str(value)
Str(v) == IF v.kind = "None" THEN <<"N", "o", "n", "e">> ELSE v.val

\* django.utils.text.slugify(value), allow_unicode=False
slugify(value) ==
    Strip(CollapseSeps(DropNonWord(Lower(AsciiIgnore(NFKD(Str(value)))))), {"-", "_"})

\* s[:k]
SliceTo(s, k) ==
    IF k >= 0
    THEN SubSeq(s, 1, IF k < Len(s) THEN k ELSE Len(s))
    ELSE SubSeq(s, 1, IF Len(s) + k > 0 THEN Len(s) + k ELSE 0)

\* str(uuid.UUID): 32 lowercase hex digits grouped 8-4-4-4-12
UuidStr(u) ==
    LET hex == [i \in 1..Len(u) |-> HexSeq[u[i] + 1]]
    IN  SubSeq(hex, 1, 8) \o <<"-">> \o SubSeq(hex, 9, 12) \o <<"-">> \o
        SubSeq(hex, 13, 16) \o <<"-">> \o SubSeq(hex, 17, 20) \o <<"-">> \o
        SubSeq(hex, 21, Len(hex))

(***************************************************************************)
(* conduit/articles/utils.py                                               *)
(***************************************************************************)
\* the generator without its first test: it recomputes on every call
slug_uuid_generator_recompute(instance) ==
    slugify(instance.title) \o <<"-">> \o UuidStr(instance.uuid_field)

\* the generator dropping the hyphen of an empty slug
slug_uuid_generator_bare(instance) ==
    IF instance.slug_uuid # <<>> THEN instance.slug_uuid
    ELSE IF slugify(instance.title) = <<>> THEN UuidStr(instance.uuid_field)
    ELSE slugify(instance.title) \o <<"-">> \o UuidStr(instance.uuid_field)

\* the generator trimming the slug without leaving room for the hyphen
slug_uuid_generator_no_hyphen_room(instance) ==
    IF instance.slug_uuid # <<>> THEN instance.slug_uuid
    ELSE SliceTo(slugify(instance.title),
                 slug_uuid_max_length - Len(UuidStr(instance.uuid_field)))
         \o <<"-">> \o UuidStr(instance.uuid_field)

slug_uuid_generator(instance) ==
    IF instance.slug_uuid # <<>>
    THEN instance.slug_uuid
    ELSE LET max_length == slug_uuid_max_length
             uuid_field == UuidStr(instance.uuid_field)
             uuid_length == Len(uuid_field)
             slug_field == SliceTo(slugify(instance.title),
                                   max_length - uuid_length - 1)
         IN  slug_field \o <<"-">> \o uuid_field

(***************************************************************************)
(* Inputs.                                                                 *)
(***************************************************************************)
SeqsUpTo(S, n) == UNION {[1..k -> S] : k \in 0..n}

UserIds == 1..MaxUsers
ArticleIds == 1..MaxArticles

\* uuid.uuid4(): a 128-bit value, here as 32 nibbles
Token(d) == [i \in 1..UuidNibbles |-> d]
MixedToken == [i \in 1..UuidNibbles |-> (7 * i) % 16]
Tokens == {Token(1), Token(10), MixedToken}

HelloWorld == <<"H","e","l","l","o",","," ","W","o","r","l","d","!">>
TitleAlphabet == {"A", "b", " ", "-", "_", "!", "U+00E9"}
\* long titles: words of six letters, and a title of title_max_length ligatures
LongText(n) == [i \in 1..n |-> IF i % 7 = 0 THEN " " ELSE "a"]
LongTitles ==
    {Text(LongText(n)) : n \in (MaxLongLen - 5)..MaxLongLen}
    \cup {Text([i \in 1..title_max_length |-> "U+FB03"])}
GenTitles ==
    {Text(s) : s \in SeqsUpTo(TitleAlphabet, MaxTitleLen)}
    \cup {Text(HelloWorld), None} \cup LongTitles
\* the titles of the specifications that edit and save repeatedly
EditTitles == {Text(<<"A">>), Text(<<"b", "!">>), Text(<<"!">>), None}

(***************************************************************************)
(* The store.                                                              *)
(***************************************************************************)
NoInstance == [kind |-> "absent"]
NoRow == [kind |-> "absent"]
Idle == [op |-> "none"]
\* the add_tag calls that may be in progress at once
CallIds == 1..MaxCalls
NoCall == [pc |-> "idle"]
NoCalls == [c \in CallIds |-> NoCall]

EmptyStore ==
    /\ users = {}
    /\ profiles = {}
    /\ follows = EmptyBag
    /\ favorites = EmptyBag
    /\ instances = [a \in ArticleIds |-> NoInstance]
    /\ articles = [a \in ArticleIds |-> NoRow]
    /\ comments = {}
    /\ tags = {}
    /\ article_tags = EmptyBag
    /\ last = Idle
    /\ calls = NoCalls

Init == EmptyStore

\* the rows of a table that hold `value` in `field`
RowsWith(table, field, value) == {r \in table : r[field] = value}
\* the next value of a table's auto-increment primary key
NextPk(table) == IF table = {} THEN 1
                 ELSE 1 + CHOOSE n \in {r.pk : r \in table} :
                              \A r \in table : r.pk <= n

(***************************************************************************)
(* Many-to-many through tables (bags of rows).                             *)
(***************************************************************************)
\* manager.filter(pk=...).exists()
M2MHas(table, row) == BagIn(row, table)
\* manager.add(obj): inserts the row unless the table already holds it
M2MAdd(table, row) == IF BagIn(row, table) THEN table ELSE table (+) SetToBag({row})
\* manager.remove(obj): deletes every row of the pair
M2MRemove(table, row) == [r \in BagToSet(table) \ {row} |-> table[r]]
\* the rows a deletion of one side cascades to
M2MWithout(table, side, key) ==
    [r \in {x \in BagToSet(table) : x[side] # key} |-> table[r]]

(***************************************************************************)
(* conduit/users/signals.py and the accounts                               *)
(***************************************************************************)
\* the first receiver forgetting `created`'s sense
create_profile_for_user_inverted(table, instance, created) ==
    IF ~created
    THEN [ok |-> RowsWith(table, "user", instance) = {},
          table |-> IF RowsWith(table, "user", instance) = {}
                    THEN table \cup {[pk |-> NextPk(table), user |-> instance]}
                    ELSE table]
    ELSE [ok |-> TRUE, table |-> table]

\* receiver of post_save: Profile.objects.create(user=instance) when created;
\* Profile.user is one-to-one, so a second row for the user is rejected
create_profile_for_user(table, instance, created) ==
    IF created
    THEN [ok |-> RowsWith(table, "user", instance) = {},
          table |-> IF RowsWith(table, "user", instance) = {}
                    THEN table \cup {[pk |-> NextPk(table), user |-> instance]}
                    ELSE table]
    ELSE [ok |-> TRUE, table |-> table]

\* receiver of post_save: instance.profile.save(); instance.profile raises
\* RelatedObjectDoesNotExist when the user has no profile
save_profile_for_user(table, instance) ==
    [ok |-> RowsWith(table, "user", instance) # {}, table |-> table]

\* user.save(): the row is written (a new account takes the next primary
\* key), then post_save runs both receivers in the order they were connected;
\* one that raises ends the save
UserSave(u) ==
    LET created == u \notin users
        r1 == create_profile_for_user(profiles, u, created)
        r2 == save_profile_for_user(r1.table, u)
    IN  /\ u \in users \/ u = Cardinality(users) + 1
        /\ users' = users \cup {u}
        /\ profiles' = r1.table
        /\ last' = [op |-> "user_save", user |-> u, created |-> created,
                    result |-> IF ~r1.ok THEN "IntegrityError"
                               ELSE IF ~r2.ok THEN "RelatedObjectDoesNotExist"
                               ELSE "ok"]
        /\ UNCHANGED <<calls, follows, favorites, instances, articles, comments,
                       tags, article_tags>>

\* user.profile
ProfileOf(u) == CHOOSE p \in RowsWith(profiles, "user", u) : TRUE
HasProfile(u) == RowsWith(profiles, "user", u) # {}
ProfilePks == {p.pk : p \in profiles}
\* profile.user
UserOf(pk) == (CHOOSE p \in profiles : p.pk = pk).user

(***************************************************************************)
(* conduit/articles/models.py: Article                                     *)
(***************************************************************************)
\* Article(title=..., author=...): slug_uuid starts empty, uuid_field is drawn
NewArticle(title, token, author) ==
    [title |-> title, uuid_field |-> token, slug_uuid |-> <<>>, author |-> author]

ArticleNew(a, title, token, author) ==
    /\ instances[a] = NoInstance
    /\ articles[a] = NoRow
    /\ author \in ProfilePks
    /\ instances' = [instances EXCEPT ![a] = NewArticle(title, token, author)]
    /\ last' = [op |-> "new", article |-> a]
    /\ UNCHANGED <<calls, users, profiles, follows, favorites, articles, comments,
                   tags, article_tags>>

\* article.title = title
ArticleSetTitle(a, title) ==
    /\ instances[a] # NoInstance
    /\ instances[a].title # title
    /\ instances' = [instances EXCEPT ![a].title = title]
    /\ last' = [op |-> "set_title", article |-> a]
    /\ UNCHANGED <<calls, users, profiles, follows, favorites, articles, comments,
                   tags, article_tags>>

\* receiver of pre_save (conduit/articles/signals.py)
generate_slug_uuid_before_article_save(instance) ==
    [instance EXCEPT !.slug_uuid = slug_uuid_generator(instance)]

\* what the Article table refuses when title may be NULL
ArticleRowRefused_nullable(a, instance) ==
    \E b \in ArticleIds \ {a} :
        articles[b] # NoRow /\ articles[b].slug_uuid = instance.slug_uuid

\* what the Article table refuses: title is NOT NULL, slug_uuid is unique
ArticleRowRefused(a, instance) ==
    \/ instance.title = None
    \/ \E b \in ArticleIds \ {a} :
          articles[b] # NoRow /\ articles[b].slug_uuid = instance.slug_uuid

\* Article.save() on an object: assign the identifier, send pre_save, write
\* the row unless the table refuses it
article_save(a, instance) ==
    LET i1 == [instance EXCEPT !.slug_uuid = slug_uuid_generator(instance)]
        i2 == generate_slug_uuid_before_article_save(i1)
    IN  [instance |-> i2, ok |-> ~ArticleRowRefused(a, i2)]

ArticleSave(a) ==
    /\ instances[a] # NoInstance
    /\ LET r == article_save(a, instances[a])
       IN  /\ instances' = [instances EXCEPT ![a] = r.instance]
           /\ articles' = IF r.ok THEN [articles EXCEPT ![a] = r.instance]
                          ELSE articles
           /\ last' = [op |-> "save", article |-> a,
                       result |-> IF r.ok THEN "ok" ELSE "IntegrityError"]
    /\ UNCHANGED <<calls, users, profiles, follows, favorites, comments, tags,
                   article_tags>>

(***************************************************************************)
(* SpecGen: the generator applied once to every title and token.           *)
(***************************************************************************)
\* one account with its profile, and one article object not saved yet
InitGen ==
    /\ users = {1}
    /\ profiles = {[pk |-> 1, user |-> 1]}
    /\ follows = EmptyBag
    /\ favorites = EmptyBag
    /\ \E t \in GenTitles, u \in Tokens :
          instances = [a \in ArticleIds |->
                         IF a = 1 THEN NewArticle(t, u, 1) ELSE NoInstance]
    /\ articles = [a \in ArticleIds |-> NoRow]
    /\ comments = {}
    /\ tags = {}
    /\ article_tags = EmptyBag
    /\ last = Idle
    /\ calls = NoCalls

NextGen == \E a \in ArticleIds : ArticleSave(a)

SpecGen == InitGen /\ [][NextGen]_vars

(***************************************************************************)
(* SpecIdent: an article's life: created, edited and saved again and again *)
(***************************************************************************)
NextIdent ==
    \/ \E u \in {1} : UserSave(u)
    \/ \E t \in EditTitles, u \in Tokens : ArticleNew(1, t, u, 1)
    \/ \E t \in EditTitles : ArticleSetTitle(1, t)
    \/ ArticleSave(1)

SpecIdent == Init /\ [][NextIdent]_vars

(***************************************************************************)
(* conduit/articles/models.py: Tag, Article.add_tag, Article.remove_tag    *)
(***************************************************************************)
\* Tag.objects.create without the unique index on slug
TagCreate_no_index(table, tag, slug) ==
    [ok |-> TRUE,
     table |-> table \cup {[pk |-> NextPk(table), tag |-> tag, slug |-> slug]},
     pk |-> NextPk(table)]

\* Tag.objects.create(tag=tag, slug=slug): Tag.slug is unique
TagCreate(table, tag, slug) ==
    IF RowsWith(table, "slug", slug) # {}
    THEN [ok |-> FALSE, table |-> table, pk |-> 0]
    ELSE [ok |-> TRUE,
          table |-> table \cup {[pk |-> NextPk(table), tag |-> tag, slug |-> slug]},
          pk |-> NextPk(table)]

\* Tag.objects.get_or_create(tag=tag, slug=slug): get by BOTH fields; when no
\* row matches, create; when the create is refused, get again and, no row
\* matching still, raise the IntegrityError
get_or_create(table, tag, slug) ==
    LET found == {r \in table : r.tag = tag /\ r.slug = slug}
        made == TagCreate(table, tag, slug)
    IN  IF found # {}
        THEN [error |-> IF Cardinality(found) = 1 THEN "" ELSE "MultipleObjectsReturned",
              table |-> table, pk |-> (CHOOSE r \in found : TRUE).pk, created |-> FALSE]
        ELSE IF made.ok
        THEN [error |-> "", table |-> made.table, pk |-> made.pk, created |-> TRUE]
        ELSE [error |-> "IntegrityError", table |-> table, pk |-> 0, created |-> FALSE]

\* Article.add_tag(tag), on a saved article
add_tag(a, tag) ==
    LET slug == slugify(Text(tag))
        got == get_or_create(tags, tag, slug)
    IN  IF got.error # ""
        THEN [result |-> got.error, tags |-> tags, article_tags |-> article_tags]
        ELSE [result |-> "ok", tags |-> got.table,
              article_tags |-> M2MAdd(article_tags, <<a, got.pk>>)]

ArticleAddTag(a, tag) ==
    /\ articles[a] # NoRow
    /\ LET r == add_tag(a, tag)
       IN  /\ tags' = r.tags
           /\ article_tags' = r.article_tags
           /\ last' = [op |-> "add_tag", article |-> a, tag |-> tag,
                       result |-> r.result]
    /\ UNCHANGED <<calls, users, profiles, follows, favorites, instances, articles, comments>>

\* remove_tag finding the tag by its key
remove_tag_by_slug(a, tag) ==
    LET found == RowsWith(tags, "slug", slugify(Text(tag)))
    IN  IF found = {}
        THEN [result |-> "DoesNotExist", article_tags |-> article_tags]
        ELSE [result |-> "ok",
              article_tags |-> M2MRemove(article_tags, <<a, (CHOOSE r \in found : TRUE).pk>>)]

\* Article.remove_tag(tag), on a saved article: Tag.objects.get(tag=tag)
remove_tag(a, tag) ==
    LET found == RowsWith(tags, "tag", tag)
    IN  IF found = {}
        THEN [result |-> "DoesNotExist", article_tags |-> article_tags]
        ELSE IF Cardinality(found) > 1
        THEN [result |-> "MultipleObjectsReturned", article_tags |-> article_tags]
        ELSE [result |-> "ok",
              article_tags |-> M2MRemove(article_tags, <<a, (CHOOSE r \in found : TRUE).pk>>)]

ArticleRemoveTag(a, tag) ==
    /\ articles[a] # NoRow
    /\ LET r == remove_tag(a, tag)
       IN  /\ article_tags' = r.article_tags
           /\ last' = [op |-> "remove_tag", article |-> a, tag |-> tag,
                       result |-> r.result]
    /\ UNCHANGED <<calls, users, profiles, follows, favorites, instances, articles,
                   comments, tags>>

(***************************************************************************)
(* SpecTags: tags added to and removed from saved articles.                *)
(***************************************************************************)
WebDev == <<"W", "e", "b", " ", "D", "e", "v">>
TagAlphabet == {"A", "!"}
\* the article the tag operations work on
TagArticleIds == {1}
\* the tag field of the editor form: a text that is not empty
TagTexts == (SeqsUpTo(TagAlphabet, MaxTagLen) \ {<<>>}) \cup {WebDev, Lower(WebDev)}

\* a saved article, as Article.save leaves it
SavedArticle(title, token, author) ==
    generate_slug_uuid_before_article_save(NewArticle(title, token, author))

\* one account with its profile, and an article saved by it
InitTags ==
    /\ users = {1}
    /\ profiles = {[pk |-> 1, user |-> 1]}
    /\ follows = EmptyBag
    /\ favorites = EmptyBag
    /\ instances = [a \in ArticleIds |-> NoInstance]
    /\ articles = [a \in ArticleIds |->
                      IF a \in TagArticleIds
                      THEN SavedArticle(Text(<<"A">>), Token(a), 1) ELSE NoRow]
    /\ comments = {}
    /\ tags = {}
    /\ article_tags = EmptyBag
    /\ last = Idle
    /\ calls = NoCalls

NextTags ==
    \/ \E a \in TagArticleIds, t \in TagTexts : ArticleAddTag(a, t)
    \/ \E a \in TagArticleIds, t \in TagTexts : ArticleRemoveTag(a, t)

SpecTags == InitTags /\ [][NextTags]_vars

(***************************************************************************)
(* SpecConcurrent: add_tag calls of requests served at the same time.  A   *)
(* call runs statement by statement and the statements of different calls  *)
(* interleave; each query is one step of the database.                     *)
(***************************************************************************)
\* Tag.objects.get(tag=tag, slug=slug), the query of get_or_create
TagGet(table, tag, slug) == {r \in table : r.tag = tag /\ r.slug = slug}

\* the two saved articles the concurrent calls work on
ConcurrentArticleIds == {1, 2}
\* two texts of one key
ConcurrentTexts == {WebDev, Lower(WebDev)}

\* one account with its profile, and two articles saved by it
InitConcurrent ==
    /\ users = {1}
    /\ profiles = {[pk |-> 1, user |-> 1]}
    /\ follows = EmptyBag
    /\ favorites = EmptyBag
    /\ instances = [a \in ConcurrentArticleIds |-> NoInstance]
    /\ articles = [a \in ConcurrentArticleIds |->
                      SavedArticle(Text(<<"A">>), Token(a), 1)]
    /\ comments = {}
    /\ tags = {}
    /\ article_tags = EmptyBag
    /\ last = Idle
    /\ calls = NoCalls

\* article.add_tag(tag) is entered: slug = slugify(tag)
AddTagCall(c, a, tag) ==
    /\ calls[c] = NoCall
    /\ a \in DOMAIN articles
    /\ articles[a] # NoRow
    /\ calls' = [calls EXCEPT ![c] = [pc |-> "get", article |-> a, tag |-> tag,
                                      slug |-> slugify(Text(tag)), tag_object |-> 0]]
    /\ last' = [op |-> "add_tag_call", call |-> c]
    /\ UNCHANGED <<users, profiles, follows, favorites, instances, articles,
                   comments, tags, article_tags>>

\* get_or_create, first statement: self.get(**kwargs)
AddTagGet(c) ==
    /\ calls[c].pc = "get"
    /\ LET found == TagGet(tags, calls[c].tag, calls[c].slug)
       IN  IF found = {}
           THEN /\ calls' = [calls EXCEPT ![c].pc = "create"]
                /\ last' = [op |-> "add_tag_get", call |-> c, result |-> "DoesNotExist"]
           ELSE IF Cardinality(found) > 1
           THEN /\ calls' = [calls EXCEPT ![c] = NoCall]
                /\ last' = [op |-> "add_tag_get", call |-> c,
                            result |-> "MultipleObjectsReturned"]
           ELSE /\ calls' = [calls EXCEPT ![c].pc = "add",
                                          ![c].tag_object = (CHOOSE r \in found : TRUE).pk]
                /\ last' = [op |-> "add_tag_get", call |-> c, result |-> "ok"]
    /\ UNCHANGED <<users, profiles, follows, favorites, instances, articles,
                   comments, tags, article_tags>>

\* get_or_create, after DoesNotExist: self.create(**params) in its own
\* transaction; the table refuses a row whose slug it already holds
AddTagCreate(c) ==
    /\ calls[c].pc = "create"
    /\ LET made == TagCreate(tags, calls[c].tag, calls[c].slug)
       IN  IF made.ok
           THEN /\ tags' = made.table
                /\ calls' = [calls EXCEPT ![c].pc = "add", ![c].tag_object = made.pk]
                /\ last' = [op |-> "add_tag_create", call |-> c, result |-> "ok"]
           ELSE /\ tags' = tags
                /\ calls' = [calls EXCEPT ![c].pc = "get_again"]
                /\ last' = [op |-> "add_tag_create", call |-> c,
                            result |-> "IntegrityError"]
    /\ UNCHANGED <<users, profiles, follows, favorites, instances, articles,
                   comments, article_tags>>

\* get_or_create, after IntegrityError: self.get(**kwargs) once more, and the
\* IntegrityError is raised again when no row matches still
AddTagGetAgain(c) ==
    /\ calls[c].pc = "get_again"
    /\ LET found == TagGet(tags, calls[c].tag, calls[c].slug)
       IN  IF Cardinality(found) = 1
           THEN /\ calls' = [calls EXCEPT ![c].pc = "add",
                                          ![c].tag_object = (CHOOSE r \in found : TRUE).pk]
                /\ last' = [op |-> "add_tag_get_again", call |-> c, result |-> "ok"]
           ELSE /\ calls' = [calls EXCEPT ![c] = NoCall]
                /\ last' = [op |-> "add_tag_get_again", call |-> c,
                            result |-> IF found = {} THEN "IntegrityError"
                                       ELSE "MultipleObjectsReturned"]
    /\ UNCHANGED <<users, profiles, follows, favorites, instances, articles,
                   comments, tags, article_tags>>

\* self.tags.add(tag_object), and the call returns
AddTagAssociate(c) ==
    /\ calls[c].pc = "add"
    /\ article_tags' = M2MAdd(article_tags, <<calls[c].article, calls[c].tag_object>>)
    /\ calls' = [calls EXCEPT ![c] = NoCall]
    /\ last' = [op |-> "add_tag_return", call |-> c, result |-> "ok"]
    /\ UNCHANGED <<users, profiles, follows, favorites, instances, articles,
                   comments, tags>>

NextConcurrent ==
    \/ \E c \in CallIds, a \in ConcurrentArticleIds, t \in ConcurrentTexts :
          AddTagCall(c, a, t)
    \/ \E c \in CallIds : AddTagGet(c)
    \/ \E c \in CallIds : AddTagCreate(c)
    \/ \E c \in CallIds : AddTagGetAgain(c)
    \/ \E c \in CallIds : AddTagAssociate(c)

SpecConcurrent == InitConcurrent /\ [][NextConcurrent]_vars

(***************************************************************************)
(* Claims about the identifier generator.                                  *)
(***************************************************************************)
EndsWith(s, t) == Len(t) <= Len(s) /\ SubSeq(s, Len(s) - Len(t) + 1, Len(s)) = t

\* the article the last operation saved
Saved(a) == last.op = "save" /\ last.article = a /\ instances[a] # NoInstance

HelloWorldIdentifier ==
    <<"h","e","l","l","o","-","w","o","r","l","d","-",
      "1","1","1","1","1","1","1","1","-","1","1","1","1","-","1","1","1","1","-",
      "1","1","1","1","-","1","1","1","1","1","1","1","1","1","1","1","1">>

\* C1: the identifier generated for an article that had none is at most
\* slug_uuid_max_length (255) characters long and ends with the 36-character
\* string form of the article's UUID; the title "Hello, World!" with the token
\* 11111111-1111-1111-1111-111111111111 gives
\* "hello-world-11111111-1111-1111-1111-111111111111".
C1_IdentifierBounded ==
    \A a \in ArticleIds :
        Saved(a) =>
            LET id == instances[a].slug_uuid
                token == UuidStr(instances[a].uuid_field)
            IN  /\ Len(token) = 36
                /\ Len(id) <= slug_uuid_max_length
                /\ EndsWith(id, token)
                /\ (instances[a].title = Text(HelloWorld)
                      /\ instances[a].uuid_field = Token(1))
                    => id = HelloWorldIdentifier

\* C1's case: a title so long that its slug is trimmed, the identifier filling
\* the field exactly
C1_Witness ==
    \E a \in ArticleIds :
        /\ Saved(a)
        /\ Len(instances[a].slug_uuid) = slug_uuid_max_length
        /\ Len(slugify(instances[a].title)) > Len(instances[a].slug_uuid)

\* C3 as stated: when the title normalizes to the empty string, the identifier
\* generated is exactly the token string, with no leading hyphen.
C3_Original ==
    \A a \in ArticleIds :
        (Saved(a) /\ slugify(instances[a].title) = <<>>)
            => instances[a].slug_uuid = UuidStr(instances[a].uuid_field)

\* C3 as amended: when the title normalizes to the empty string, the identifier
\* generated is a hyphen followed by the token string (37 characters): the
\* separating hyphen is kept.
C3_EmptySlugKeepsHyphen ==
    \A a \in ArticleIds :
        (Saved(a) /\ slugify(instances[a].title) = <<>>)
            => /\ instances[a].slug_uuid = <<"-">> \o UuidStr(instances[a].uuid_field)
               /\ Len(instances[a].slug_uuid) = 37

\* C3's case: a title of punctuation only has been saved
C3_Witness ==
    \E a \in ArticleIds :
        /\ Saved(a)
        /\ instances[a].title = Text(<<"!", "!">>)
        /\ slugify(instances[a].title) = <<>>

\* C4 as stated: generating the identifier of an article whose title is None
\* fails with ValidationError, and no identifier is produced or assigned.
C4_Original ==
    \A a \in ArticleIds :
        (Saved(a) /\ instances[a].title = None)
            => /\ last.result = "ValidationError"
               /\ instances[a].slug_uuid = <<>>

\* C4 as amended: for an article whose title is None and that has no identifier
\* yet, the generator raises nothing: it slugifies the text "None" and
\* Article.save assigns "none-" followed by the token to the object; the save
\* then fails at the table with IntegrityError (title is NOT NULL) and no row
\* is stored.
C4_NoneTitleGetsIdentifier ==
    \A a \in ArticleIds :
        (Saved(a) /\ instances[a].title = None)
            => /\ instances[a].slug_uuid =
                      <<"n", "o", "n", "e", "-">> \o UuidStr(instances[a].uuid_field)
               /\ last.result = "IntegrityError"
               /\ articles[a] = NoRow

\* C4's case: an article without a title has been through save
C4_Witness ==
    \E a \in ArticleIds :
        Saved(a) /\ instances[a].title = None /\ last.result # "ok"

\* C2: once an article has an identifier, no edit of its title and no save
\* changes it, on the object or in its row.
C2_IdentifierStable ==
    [][\A a \in ArticleIds :
          /\ (instances[a] # NoInstance /\ instances[a].slug_uuid # <<>>
                 /\ instances'[a] # NoInstance)
              => instances'[a].slug_uuid = instances[a].slug_uuid
          /\ (articles[a] # NoRow /\ articles'[a] # NoRow)
              => articles'[a].slug_uuid = articles[a].slug_uuid]_vars

\* C2's case: an article saved again under a title that its identifier was
\* not made from
C2_Witness ==
    \E a \in ArticleIds :
        /\ Saved(a) /\ last.result = "ok"
        /\ articles[a] # NoRow
        /\ articles[a].title = Text(<<"A">>)
        /\ articles[a].slug_uuid = <<"b", "-">> \o UuidStr(articles[a].uuid_field)

(***************************************************************************)
(* Claims about the tag registry.                                          *)
(***************************************************************************)
\* the article is tagged with a tag of this key
TaggedWithKey(a, slug) ==
    \E r \in tags : r.slug = slug /\ M2MHas(article_tags, <<a, r.pk>>)

\* C5 as stated: when the article already carries a tag of the key that the
\* raw text normalizes to (an earlier add_tag, with the same or another text
\* of that key), add_tag succeeds by reusing that tag: no Tag row is created,
\* one Tag row has the key, and the article is associated with it once.
C5_Original ==
    [][\A a \in TagArticleIds, t \in TagTexts :
          (ArticleAddTag(a, t) /\ TaggedWithKey(a, slugify(Text(t))))
              => /\ last'.result = "ok"
                 /\ tags' = tags
                 /\ Cardinality(RowsWith(tags', "slug", slugify(Text(t)))) = 1
                 /\ \A r \in RowsWith(tags', "slug", slugify(Text(t))) :
                        CopiesIn(<<a, r.pk>>, article_tags') = 1]_vars

\* C6: remove_tag finds the tag by its exact display text.  When no Tag row
\* has that text the call fails with DoesNotExist and neither the catalog nor
\* any article's tags change, even if a tag of the same key exists (after
\* add_tag "Web Dev", remove_tag "web dev" fails and the article stays
\* tagged); when a row has the text, that tag and no other is taken off the
\* article.
C6_RemoveByExactText ==
    [][\A a \in TagArticleIds, t \in TagTexts :
          ArticleRemoveTag(a, t) =>
              IF RowsWith(tags, "tag", t) = {}
              THEN /\ last'.result = "DoesNotExist"
                   /\ tags' = tags
                   /\ article_tags' = article_tags
              ELSE /\ last'.result = "ok"
                   /\ tags' = tags
                   /\ \A r \in tags :
                        M2MHas(article_tags', <<a, r.pk>>)
                            <=> (M2MHas(article_tags, <<a, r.pk>>) /\ r.tag # t)]_vars

\* C6's case: remove_tag "web dev" has failed on an article tagged "Web Dev"
C6_Witness ==
    /\ last.op = "remove_tag"
    /\ last.tag = Lower(WebDev)
    /\ last.result = "DoesNotExist"
    /\ \E r \in tags : r.tag = WebDev /\ M2MHas(article_tags, <<last.article, r.pk>>)

\* C11: under every interleaving of concurrent add_tag calls whose texts
\* normalize to one key, each call a lookup, then a create, then the
\* association, the Tag table never holds two rows of the same key; a create
\* that comes second for a key is rejected by the unique index and leaves
\* the table as it was.
C11_UniqueKeyUnderConcurrency ==
    /\ [](\A r1, r2 \in tags : r1.slug = r2.slug => r1 = r2)
    /\ [][\A c \in CallIds :
             (AddTagCreate(c) /\ RowsWith(tags, "slug", calls[c].slug) # {})
                 => /\ tags' = tags
                    /\ last'.result = "IntegrityError"]_vars

\* C11's case: two calls on different articles both missed the lookup, one
\* created the tag, and the create of the other has just been rejected
C11_Witness ==
    /\ last.op = "add_tag_create"
    /\ last.result = "IntegrityError"
    /\ \E c, d \in CallIds :
          /\ c # d
          /\ calls[c].pc = "get_again"
          /\ calls[d].pc = "add"
          /\ calls[c].article # calls[d].article
          /\ calls[c].slug = calls[d].slug
          /\ \E r \in tags : r.pk = calls[d].tag_object /\ r.slug = calls[c].slug

(***************************************************************************)
(* conduit/users/models.py: Profile                                        *)
(***************************************************************************)
\* follow() inserting its row without looking for it first
follow_unchecked(p, profile) == follows (+) SetToBag({<<p, profile>>})

\* Profile.follow(profile): the follows table afterwards
follow(p, profile) == M2MAdd(follows, <<p, profile>>)
\* Profile.unfollow(profile): the follows table afterwards
unfollow(p, profile) == M2MRemove(follows, <<p, profile>>)
\* Profile.is_following(profile)
is_following(p, profile) == M2MHas(follows, <<p, profile>>)
\* Profile.favorite(article): the favorites table afterwards
favorite(p, article) == M2MAdd(favorites, <<p, article>>)
\* Profile.unfavorite(article): the favorites table afterwards
unfavorite(p, article) == M2MRemove(favorites, <<p, article>>)
\* Profile.has_favorited(article)
has_favorited(p, article) == M2MHas(favorites, <<p, article>>)

\* `was` notes whether the edge was there when the call began
ProfileFollow(p, t) ==
    /\ p \in ProfilePks /\ t \in ProfilePks
    /\ follows' = follow(p, t)
    /\ last' = [op |-> "follow", was |-> is_following(p, t)]
    /\ UNCHANGED <<calls, users, profiles, favorites, instances, articles, comments,
                   tags, article_tags>>

ProfileUnfollow(p, t) ==
    /\ p \in ProfilePks /\ t \in ProfilePks
    /\ follows' = unfollow(p, t)
    /\ last' = [op |-> "unfollow", was |-> is_following(p, t)]
    /\ UNCHANGED <<calls, users, profiles, favorites, instances, articles, comments,
                   tags, article_tags>>

ProfileFavorite(p, a) ==
    /\ p \in ProfilePks /\ articles[a] # NoRow
    /\ favorites' = favorite(p, a)
    /\ last' = [op |-> "favorite", was |-> has_favorited(p, a)]
    /\ UNCHANGED <<calls, users, profiles, follows, instances, articles, comments,
                   tags, article_tags>>

ProfileUnfavorite(p, a) ==
    /\ p \in ProfilePks /\ articles[a] # NoRow
    /\ favorites' = unfavorite(p, a)
    /\ last' = [op |-> "unfavorite", was |-> has_favorited(p, a)]
    /\ UNCHANGED <<calls, users, profiles, follows, instances, articles, comments,
                   tags, article_tags>>

(***************************************************************************)
(* conduit/articles/views.py: EditorCreateView                             *)
(***************************************************************************)
\* EditorCreateView.form_valid for a logged-in user and a valid form: the
\* article is built from the form, given the user's profile as author and
\* saved; ModelFormMixin.form_valid saves the form once more and redirects to
\* the article.  The object does not outlive the request.
EditorCreate(u, a, title, token) ==
    /\ u \in users /\ HasProfile(u)
    /\ articles[a] = NoRow /\ instances[a] = NoInstance
    /\ LET r1 == article_save(a, NewArticle(title, token, ProfileOf(u).pk))
           r2 == article_save(a, r1.instance)
       IN  /\ articles' = IF r1.ok /\ r2.ok THEN [articles EXCEPT ![a] = r2.instance]
                          ELSE articles
           /\ last' = [op |-> "editor_create",
                       result |-> IF r1.ok /\ r2.ok THEN "redirect:article_detail"
                                  ELSE "IntegrityError"]
    /\ UNCHANGED <<calls, users, profiles, follows, favorites, instances, comments,
                   tags, article_tags>>

(***************************************************************************)
(* conduit/articles/models.py: Comment, and deleting an Article            *)
(***************************************************************************)
CommentIds == 1..MaxComments

\* Comment.objects.create(article=..., author=..., body=...): Comment.article
\* refers to the article by its slug_uuid (to_field)
CommentCreate(c, p, a) ==
    /\ c \notin {r.pk : r \in comments}
    /\ p \in ProfilePks
    /\ articles[a] # NoRow
    /\ comments' = comments \cup
                     {[pk |-> c, article |-> articles[a].slug_uuid, author |-> p]}
    /\ last' = [op |-> "comment_create", result |-> "ok"]
    /\ UNCHANGED <<calls, users, profiles, follows, favorites, instances, articles,
                   tags, article_tags>>

\* comment.delete()
CommentDelete(c) ==
    /\ c \in {r.pk : r \in comments}
    /\ comments' = {r \in comments : r.pk # c}
    /\ last' = [op |-> "comment_delete", result |-> "ok"]
    /\ UNCHANGED <<calls, users, profiles, follows, favorites, instances, articles,
                   tags, article_tags>>

\* the comments left if deleting an article took no comment with it
CommentsAfterDelete_kept(a) == comments

\* Comment.article is on_delete=CASCADE: the comments left when article a goes
CommentsAfterDelete(a) == {r \in comments : r.article # articles[a].slug_uuid}

\* the through rows of Profile.favorites left when article a goes
FavoritesAfterDelete(a) == M2MWithout(favorites, 2, a)

\* the through rows of Article.tags left when article a goes
ArticleTagsAfterDelete(a) == M2MWithout(article_tags, 1, a)

\* article.delete(): what it returns, the number of rows deleted by table
DeleteCount(a) ==
    [comments |-> Cardinality(comments) - Cardinality(CommentsAfterDelete(a)),
     favorites |-> BagCardinality(favorites) - BagCardinality(FavoritesAfterDelete(a)),
     tags |-> BagCardinality(article_tags) - BagCardinality(ArticleTagsAfterDelete(a))]

(***************************************************************************)
(* conduit/articles/urls.py and views.py: the handlers that change or      *)
(* delete an article or a comment.  A response is "redirect:<url name>"; a *)
(* handler that raises ends with the exception's name.                     *)
(***************************************************************************)
\* the keyword arguments the URL patterns capture
EditorUpdateKwargs(a) == [slug_uuid |-> a]
EditorDeleteKwargs(a) == [slug_uuid |-> a]
CommentDeleteKwargs(a, c) == [slug_uuid |-> a, pk |-> c]

\* SingleObjectMixin.get_object, which EditorUpdateView and CommentDeleteView
\* inherit: it reads the captured "pk" and "slug"; with neither it raises
\* AttributeError; a slug filters on the model's field "slug", which Article
\* does not have (FieldError); no row is Http404.  `rows` are the keys of
\* the model's rows.
get_object(kwargs, rows) ==
    IF "pk" \notin DOMAIN kwargs /\ "slug" \notin DOMAIN kwargs
    THEN [error |-> "AttributeError", pk |-> 0]
    ELSE IF "pk" \notin DOMAIN kwargs
    THEN [error |-> "FieldError", pk |-> 0]
    ELSE IF kwargs.pk \notin rows
    THEN [error |-> "Http404", pk |-> 0]
    ELSE [error |-> "", pk |-> kwargs.pk]

\* EditorDeleteView.get_object: get_object_or_404(Article, slug_uuid=...)
EditorDeleteGetObject(kwargs) ==
    IF articles[kwargs.slug_uuid] = NoRow
    THEN [error |-> "Http404", pk |-> 0]
    ELSE [error |-> "", pk |-> kwargs.slug_uuid]

ArticlePks == {a \in ArticleIds : articles[a] # NoRow}
\* request.user == article.author.user
IsArticleAuthor(u, a) == u = UserOf(articles[a].author)
\* request.user == comment.author.user
IsCommentAuthor(u, c) == u = UserOf((CHOOSE r \in comments : r.pk = c).author)

\* EditorUpdateView.post for a logged-in user.  `button` is the request's
\* button ("add_new_tag", "remove_tag" or none: "form"), `text` its tag or
\* its new title.  The two tag branches redirect to reverse_lazy of
\* "editor_update" with the keyword "slug", which that URL does not take.
EditorUpdatePost(u, a, button, text) ==
    /\ u \in users /\ HasProfile(u)
    /\ LET got == get_object(EditorUpdateKwargs(a), ArticlePks)
       IN  IF got.error # ""
           THEN /\ last' = [op |-> "editor_update", result |-> got.error]
                /\ UNCHANGED <<articles, tags, article_tags>>
           ELSE IF ~IsArticleAuthor(u, got.pk)
           THEN /\ last' = [op |-> "editor_update", result |-> "redirect:article_detail"]
                /\ UNCHANGED <<articles, tags, article_tags>>
           ELSE IF button = "add_new_tag"
           THEN LET r == add_tag(got.pk, text)
                IN  /\ tags' = r.tags
                    /\ article_tags' = r.article_tags
                    /\ last' = [op |-> "editor_update",
                                result |-> IF r.result = "ok" THEN "NoReverseMatch"
                                           ELSE r.result]
                    /\ UNCHANGED articles
           ELSE IF button = "remove_tag"
           THEN LET r == remove_tag(got.pk, text)
                IN  /\ article_tags' = r.article_tags
                    /\ last' = [op |-> "editor_update",
                                result |-> IF r.result = "ok" THEN "NoReverseMatch"
                                           ELSE r.result]
                    /\ UNCHANGED <<articles, tags>>
           ELSE LET r == article_save(got.pk, [articles[got.pk] EXCEPT !.title = Text(text)])
                IN  /\ articles' = IF r.ok THEN [articles EXCEPT ![got.pk] = r.instance]
                                   ELSE articles
                    /\ last' = [op |-> "editor_update",
                                result |-> IF r.ok THEN "redirect:article_detail"
                                           ELSE "IntegrityError"]
                    /\ UNCHANGED <<tags, article_tags>>
    /\ UNCHANGED <<calls, users, profiles, follows, favorites, instances, comments>>

\* EditorDeleteView.post for a logged-in user: the author's request goes to
\* DeleteView.post, which deletes the article with all that hangs on it
\* and redirects to "home"
EditorDeletePost(u, a) ==
    /\ u \in users /\ HasProfile(u)
    /\ LET got == EditorDeleteGetObject(EditorDeleteKwargs(a))
       IN  IF got.error # ""
           THEN /\ last' = [op |-> "editor_delete", result |-> got.error]
                /\ UNCHANGED <<articles, comments, favorites, article_tags>>
           ELSE IF IsArticleAuthor(u, got.pk)
           THEN /\ articles' = [articles EXCEPT ![got.pk] = NoRow]
                /\ comments' = CommentsAfterDelete(got.pk)
                /\ favorites' = FavoritesAfterDelete(got.pk)
                /\ article_tags' = ArticleTagsAfterDelete(got.pk)
                /\ last' = [op |-> "editor_delete", result |-> "redirect:home",
                            article |-> got.pk, deleted |-> DeleteCount(got.pk)]
           ELSE /\ last' = [op |-> "editor_delete", result |-> "redirect:article_detail"]
                /\ UNCHANGED <<articles, comments, favorites, article_tags>>
    /\ UNCHANGED <<calls, users, profiles, follows, instances, tags>>

\* CommentDeleteView.post for a logged-in user: the author's request goes to
\* DeleteView.post, which asks get_success_url for the redirect before it
\* deletes; get_success_url reverses "article_detail" with the keyword
\* "slug", which that URL does not take, and raises
CommentDeletePost(u, a, c) ==
    /\ u \in users /\ HasProfile(u)
    /\ LET got == get_object(CommentDeleteKwargs(a, c), {r.pk : r \in comments})
       IN  IF got.error # ""
           THEN last' = [op |-> "comment_delete_view", result |-> got.error]
           ELSE IF IsCommentAuthor(u, got.pk)
           THEN last' = [op |-> "comment_delete_view", result |-> "NoReverseMatch"]
           ELSE last' = [op |-> "comment_delete_view", result |-> "redirect:article_detail"]
    /\ UNCHANGED <<calls, users, profiles, follows, favorites, instances, articles,
                   comments, tags, article_tags>>

(***************************************************************************)
(* Spec: the content store under its handlers.                             *)
(***************************************************************************)
\* the accounts of the store: an author and another user
StoreUserIds == {1, 2}
Buttons == {"add_new_tag", "remove_tag", "form"}

Next ==
    \/ \E u \in StoreUserIds : UserSave(u)
    \/ \E u \in StoreUserIds, a \in ArticleIds : EditorCreate(u, a, Text(<<"A">>), Token(a))
    \/ \E u \in StoreUserIds, a \in ArticleIds, b \in Buttons :
          EditorUpdatePost(u, a, b, WebDev)
    \/ \E u \in StoreUserIds, a \in ArticleIds : EditorDeletePost(u, a)
    \/ \E c \in CommentIds, p \in StoreUserIds, a \in ArticleIds : CommentCreate(c, p, a)
    \/ \E c \in CommentIds : CommentDelete(c)
    \/ \E u \in StoreUserIds, a \in ArticleIds, c \in CommentIds : CommentDeletePost(u, a, c)
    \/ \E p \in StoreUserIds, a \in ArticleIds : ProfileFavorite(p, a)
    \/ \E p \in StoreUserIds, a \in ArticleIds : ProfileUnfavorite(p, a)
    \/ \E a \in ArticleIds : ArticleAddTag(a, WebDev)

Spec == Init /\ [][Next]_vars

(***************************************************************************)
(* SpecSocial: accounts made and saved, profiles following and favoriting. *)
(***************************************************************************)
\* the article the profiles favorite, and its author
SocialArticleIds == {1}
SocialAuthors == {1}

NextSocial ==
    \/ \E u \in UserIds : UserSave(u)
    \/ \E u \in SocialAuthors, a \in SocialArticleIds :
          EditorCreate(u, a, Text(<<"A">>), Token(a))
    \/ \E p \in UserIds, t \in UserIds : ProfileFollow(p, t)
    \/ \E p \in UserIds, t \in UserIds : ProfileUnfollow(p, t)
    \/ \E p \in UserIds, a \in SocialArticleIds : ProfileFavorite(p, a)
    \/ \E p \in UserIds, a \in SocialArticleIds : ProfileUnfavorite(p, a)

SpecSocial == Init /\ [][NextSocial]_vars

(***************************************************************************)
(* conduit/users/views.py: ProfileFollowView                               *)
(***************************************************************************)
\* the handler following in both branches
ProfileFollowToggle_always_follow(p, profile) == follow(p, profile)

\* the if/else of ProfileFollowView.post: the follows table afterwards
ProfileFollowToggle(p, profile) ==
    IF is_following(p, profile) THEN unfollow(p, profile) ELSE follow(p, profile)

\* ProfileFollowView.post for the logged-in user u on profile/@<username>/follow:
\* the account of that username or 404, its profile, the toggle, and the
\* redirect of RedirectView.post; `before` notes the follows table and `was`
\* the edge as they were when the request came in
ProfileFollowPost(u, username) ==
    /\ u \in users /\ HasProfile(u)
    /\ IF username \notin users
       THEN /\ last' = [op |-> "profile_follow", result |-> "Http404"]
            /\ UNCHANGED follows
       ELSE IF ~HasProfile(username)
       THEN /\ last' = [op |-> "profile_follow", result |-> "RelatedObjectDoesNotExist"]
            /\ UNCHANGED follows
       ELSE LET p == ProfileOf(u).pk
                profile == ProfileOf(username).pk
            IN  /\ follows' = ProfileFollowToggle(p, profile)
                /\ last' = [op |-> "profile_follow", result |-> "redirect",
                            user |-> p, profile |-> profile,
                            was |-> is_following(p, profile), before |-> follows]
    /\ UNCHANGED <<calls, users, profiles, favorites, instances, articles, comments,
                   tags, article_tags>>

\* accounts saved, and follow requests served one at a time
NextFollow ==
    \/ \E u \in UserIds : UserSave(u)
    \/ \E u \in UserIds, username \in UserIds : ProfileFollowPost(u, username)

SpecFollow == Init /\ [][NextFollow]_vars

(***************************************************************************)
(* Claims about the social graph and the profiles.                         *)
(***************************************************************************)
\* C7: follow leaves exactly one edge from p to t, whether or not one was
\* there (a second follow changes nothing), and unfollow leaves none, so that
\* unfollow after follow leaves is_following false; favorite and
\* unfavorite do the same with a profile and an article.
C7_FollowUnfollowInverse ==
    [][/\ \A p \in UserIds, t \in UserIds :
            /\ ProfileFollow(p, t)
                 => /\ CopiesIn(<<p, t>>, follows') = 1
                    /\ is_following(p, t) => follows' = follows
            /\ ProfileUnfollow(p, t) => ~M2MHas(follows', <<p, t>>)
       /\ \A p \in UserIds, a \in ArticleIds :
            /\ ProfileFavorite(p, a)
                 => /\ CopiesIn(<<p, a>>, favorites') = 1
                    /\ has_favorited(p, a) => favorites' = favorites
            /\ ProfileUnfavorite(p, a) => ~M2MHas(favorites', <<p, a>>)]_vars

\* C7's case: follow has run on an edge that was already there
C7_Witness ==
    /\ last.op = "follow" /\ last.was
    /\ \E p \in UserIds, t \in UserIds : p # t /\ CopiesIn(<<p, t>>, follows) = 1

\* C10: every account has exactly one Profile, and no save of an account
\* adds a profile to an account that has one or takes one away.
C10_OneProfilePerUser ==
    /\ \A u \in users : Cardinality(RowsWith(profiles, "user", u)) = 1
    /\ \A p \in profiles : p.user \in users
    /\ last.op = "user_save" => last.result = "ok"

\* C10's case: an account that has its profile has been saved again
C10_Witness ==
    /\ last.op = "user_save" /\ ~last.created
    /\ Cardinality(users) = MaxUsers
    /\ Cardinality(profiles) = MaxUsers

\* C12: a follow request served alone, from the logged-in profile u on an
\* existing profile t, flips the edge (u, t) and leaves every other edge,
\* the reverse edge (t, u) among them, as it was; a second such request right
\* after the first brings the follows table back to what it was before both.
C12_ToggleFlipsOneEdge ==
    [][\A u \in UserIds, t \in UserIds :
          (ProfileFollowPost(u, t) /\ t \in users /\ HasProfile(t))
              => LET p == ProfileOf(u).pk
                     profile == ProfileOf(t).pk
                 IN  /\ last'.result = "redirect"
                     /\ M2MHas(follows', <<p, profile>>) <=> ~M2MHas(follows, <<p, profile>>)
                     /\ \A e \in (ProfilePks \X ProfilePks) \ {<<p, profile>>} :
                           CopiesIn(e, follows') = CopiesIn(e, follows)
                     /\ BagToSet(follows') \subseteq ProfilePks \X ProfilePks
                     /\ (/\ last.op = "profile_follow"
                         /\ last.result = "redirect"
                         /\ last.user = p
                         /\ last.profile = profile) => follows' = last.before]_vars

\* C12's case: a request has taken away the edge (u, t) that an earlier
\* request added, and the reverse edge (t, u) is still there
C12_Witness ==
    /\ last.op = "profile_follow"
    /\ last.result = "redirect"
    /\ last.was
    /\ last.user # last.profile
    /\ ~M2MHas(follows, <<last.user, last.profile>>)
    /\ M2MHas(follows, <<last.profile, last.user>>)

(***************************************************************************)
(* Claims about the content store.                                         *)
(***************************************************************************)
\* C8: after an article is deleted no comment of it remains and no profile's
\* favorites hold it: every comment in the store belongs to an article that
\* is there, every favorite is of an article that is there, and an article
\* its author deleted is not there.
C8_DeleteCascades ==
    /\ \A c \in comments :
          \E a \in ArticleIds : articles[a] # NoRow /\ articles[a].slug_uuid = c.article
    /\ \A r \in BagToSet(favorites) : articles[r[2]] # NoRow
    /\ (last.op = "editor_delete" /\ last.result = "redirect:home")
          => articles[last.article] = NoRow

\* C8's case: an article with a comment and in a profile's favorites has
\* been deleted
C8_Witness ==
    /\ last.op = "editor_delete" /\ last.result = "redirect:home"
    /\ last.deleted.comments > 0
    /\ last.deleted.favorites > 0
    /\ articles[last.article] = NoRow

\* what a handler must leave alone when it refuses
Store == <<users, profiles, follows, favorites, articles, comments, tags, article_tags>>

\* C9 as stated: an update, tag-add, tag-remove or delete request on an
\* article, or a delete request on a comment, from a user who is not its
\* author changes nothing in the store and is answered with a redirect to the
\* article's read view, not an error.
C9_Original ==
    [][/\ \A u \in StoreUserIds, a \in ArticleIds :
            (articles[a] # NoRow /\ ~IsArticleAuthor(u, a))
                => /\ \A b \in Buttons :
                        EditorUpdatePost(u, a, b, WebDev)
                            => /\ Store' = Store
                               /\ last'.result = "redirect:article_detail"
                   /\ EditorDeletePost(u, a)
                        => /\ Store' = Store
                           /\ last'.result = "redirect:article_detail"
       /\ \A u \in StoreUserIds, a \in ArticleIds, c \in CommentIds :
            (c \in {r.pk : r \in comments} /\ ~IsCommentAuthor(u, c))
                => (CommentDeletePost(u, a, c)
                        => /\ Store' = Store
                           /\ last'.result = "redirect:article_detail")]_vars

====
